---- MODULE Spec2Model ----
(***************************************************************************)
(* Model of src/main.cpp: a cache-characteristics benchmark.               *)
(*                                                                         *)
(*   create_cycle / traverse   pointer-chasing cycle over a strided buffer *)
(*   measure                   the (length, stride) sweep of one trial     *)
(*   average                   trimmed mean of one grid cell               *)
(*   find_cache_length,                                                    *)
(*   find_cache_line_length    the two breakpoint scans                    *)
(*   main                      grid construction, 100 trials, reporting    *)
(*                                                                         *)
(* Four specifications share the operators that model the functions:       *)
(*   SpecCycle    create_cycle followed by traverse, on bounded inputs     *)
(*   SpecAverage  average() on bounded sample vectors                      *)
(*   SpecMeasure  repeated calls of measure(), one action per statement    *)
(*   Spec         main(), with the program's own grid and trial count      *)
(*                                                                         *)
(* Indices are 0-based as in the source; At(s, i) reads a vector.          *)
(* A double is modelled as an exact rational [nan, num, den]; the model    *)
(* does not reproduce binary rounding.                                     *)
(***************************************************************************)
EXTENDS Integers, Sequences, FiniteSets, TLC

VARIABLES
    \* ---- SpecCycle
    cyc_pc,          \* "start" | "built" | "walked"
    cyc_length,      \* create_cycle's `length` (number of active positions)
    cyc_stride,      \* create_cycle's `stride`
    cyc_mem,         \* the buffer: element offset -> stored int (written slots only)
    cyc_walk,        \* result record of the traverse call
    \* ---- SpecAverage
    avg_pc,          \* "start" | "done"
    values,          \* the vector handed to average() (sorted in place by it)
    avg,             \* average()'s return value
    \* ---- SpecMeasure and Spec
    stride_sizes,    \* vector<int>
    length_sizes,    \* vector<int>
    results,         \* results[i][j]: vector<long> of samples
    \* ---- SpecMeasure
    pc,              \* position inside the driver loop / measure()
    trial,           \* completed calls of measure()
    i, j,            \* measure()'s loop indices
    sum,             \* measure()'s accumulator (an int; it stays far below 2^31 here)
    memory_begin,    \* "none" | "null" | "buf" | "freed"
    mem,             \* contents of the working buffer (written slots only)
    time,            \* value returned by measure_time
    live,            \* number of allocated, not yet freed buffers
    steps,           \* statements executed by the current loop iteration
    calls,           \* <<i, j>> of every on_result call of the current measure()
    touched,         \* record of the memory traffic of the current iteration
    \* ---- Spec
    mpc,             \* position inside main()
    profile,         \* latency behaviour of the machine under test
    runs,            \* calls of measure() made by main
    av_result,       \* av_result[i][j]
    cache_length_idx,
    cache_line_length_idx,
    scanned,         \* grid rows read by each scan
    out              \* lines written to cout by the reporting code

cycVars  == <<cyc_pc, cyc_length, cyc_stride, cyc_mem, cyc_walk>>
avgVars  == <<avg_pc, values, avg>>
gridVars == <<stride_sizes, length_sizes, results>>
measVars == <<pc, trial, i, j, sum, memory_begin, mem, time, live, steps, calls, touched>>
mainVars == <<mpc, profile, runs, av_result, cache_length_idx, cache_line_length_idx,
              scanned, out>>
vars     == <<cycVars, avgVars, gridVars, measVars, mainVars>>

-----------------------------------------------------------------------------
(* Program constants *)

mask == 1454213

\* sizeof(int) on the supported builds
ElemSize == 4

\* measure(): a pair is skipped when active_positions <= SkipLimit
SkipLimit == 4

WarmupRounds == 32
TimedRounds == 16

FirstStride == 1
StrideLimit == 128
FirstLength == 256
LengthLimit == 65536
Trials == 100

-----------------------------------------------------------------------------
(* Bounds of the model *)

\* SpecCycle: create_cycle is called with length in 1..MaxCycleLength
MaxCycleLength == 5
\* SpecCycle: and stride in 1..MaxCycleStride
MaxCycleStride == 3
\* random_shuffle: every permutation is an outcome for up to MaxShuffle elements
MaxShuffle == 4
\* SpecAverage: vectors of 0..MaxSamples samples
MaxSamples == 5
\* SpecAverage: samples in 0..MaxSample
MaxSample == 2
\* SpecMeasure: the driver calls measure() MaxTrials times
MaxTrials == 2

-----------------------------------------------------------------------------
(* Vectors *)

At(s, k) == s[k + 1]

Size(s) == Len(s)

Back(s) == s[Len(s)]

\* a ^ b on non-negative ints
RECURSIVE XOR(_, _)
XOR(a, b) ==
    IF a = 0 THEN b
    ELSE IF b = 0 THEN a
    ELSE (((a % 2) + (b % 2)) % 2) + 2 * XOR(a \div 2, b \div 2)

\* All orderings of the finite set S, as sequences
RECURSIVE Perms(_)
Perms(S) ==
    IF S = {} THEN {<<>>}
    ELSE UNION {{<<x>> \o p : p \in Perms(S \ {x})} : x \in S}

Rotate(s, k) == [n \in 1..Len(s) |-> s[((n + k - 1) % Len(s)) + 1]]

Reverse(s) == [n \in 1..Len(s) |-> s[Len(s) + 1 - n]]

Iota(n) == [k \in 1..n |-> k]

-----------------------------------------------------------------------------
(* create_cycle *)

\* Outcomes of random_shuffle on <<1, ..., n>>: every permutation while n is
\* small; for larger n the rotations of the identity and of its reverse.
ShuffleOutcomes(n) ==
    IF n <= MaxShuffle THEN Perms(1..n)
    ELSE {Rotate(Iota(n), k) : k \in 0..(n - 1)}
         \cup {Rotate(Reverse(Iota(n)), k) : k \in 0..(n - 1)}

\* *(memory_begin + offset) = value
Store(m, offset, value) ==
    [o \in (DOMAIN m) \cup {offset} |-> IF o = offset THEN value ELSE m[o]]

\* The value create_cycle stores for the successor `next`
Encode_plain(next, stride) == next * stride

Encode(next, stride) == XOR(next * stride, mask)

\* The slot create_cycle writes for logical position cur
SlotOf_unscaled(cur, stride) == cur

SlotOf(cur, stride) == cur * stride

\* lines 27-31: the loop `for (j = jj; j < length; ++j)` over indices
RECURSIVE CycleLoop(_, _, _, _, _, _)
CycleLoop(m, indices, jj, length, cur, stride) ==
    IF jj >= length THEN m
    ELSE CycleLoop(Store(m, SlotOf(cur, stride), Encode(At(indices, jj), stride)),
                   indices, jj + 1, length, At(indices, jj), stride)

\* create_cycle(memory_begin, length, stride); `shuffled` is the outcome of
\* random_shuffle on <<1, ..., length - 1>>, to which line 25 appends 0.
create_cycle(m, length, stride, shuffled) ==
    CycleLoop(m, Append(shuffled, 0), 0, length, 0, stride)

-----------------------------------------------------------------------------
(* traverse *)

\* cur = *(memory_begin + cur) ^ mask
Decode(v) == XOR(v, mask)

\* One iteration of traverse's loop (lines 39-40); acc holds cur and sum and
\* records the offsets read and the values cur took. A read of a slot that
\* create_cycle did not write (uninitialised, or outside the buffer) is
\* recorded as a fault and ends the walk: what follows it is undefined.
TraverseStep(m, acc) ==
    IF acc.fault THEN acc
    ELSE IF acc.cur \notin DOMAIN m
         THEN [acc EXCEPT !.reads = @ \cup {acc.cur}, !.fault = TRUE]
    ELSE LET next == Decode(m[acc.cur])
         IN [cur |-> next,
             sum |-> acc.sum + next,
             path |-> Append(acc.path, next),
             reads |-> acc.reads \cup {acc.cur},
             fault |-> FALSE]

\* The iterations iter = from, ..., to - 1 of the loop of line 38, in order
\* (the range is halved to keep the evaluation shallow)
RECURSIVE TraverseLoop(_, _, _, _)
TraverseLoop(m, from, to, acc) ==
    IF from >= to THEN acc
    ELSE IF to = from + 1 THEN TraverseStep(m, acc)
    ELSE LET mid == (from + to) \div 2
             half == TraverseLoop(m, from, mid, acc)
         IN IF half.fault THEN half ELSE TraverseLoop(m, mid, to, half)

\* traverse(length, memory_begin, sum) with length = n
traverse(n, m, s) ==
    TraverseLoop(m, 0, n,
                 [cur |-> 0, sum |-> s, path |-> <<>>, reads |-> {}, fault |-> FALSE])

NoWalk == [cur |-> 0, sum |-> 0, path |-> <<>>, reads |-> {}, fault |-> FALSE]

NoMem == <<>>

-----------------------------------------------------------------------------
(* average *)

NaN == [nan |-> TRUE, num |-> 0, den |-> 1]

\* static_cast<double>(n) / d for n >= 0, d >= 0; the only quotient by zero
\* the code forms is 0.0 / 0, which is NaN
Quotient(n, d) == IF d = 0 THEN NaN ELSE [nan |-> FALSE, num |-> n, den |-> d]

\* a > b * (pn / pd) on doubles: false when either side is NaN
Greater(a, b, pn, pd) ==
    /\ ~a.nan
    /\ ~b.nan
    /\ a.num * b.den * pd > b.num * pn * a.den

\* sort(values.begin(), values.end()): the ascending arrangement of the same
\* samples; its k-th entry is the smallest sample v with at least k samples <= v
Sort(s) ==
    LET vals == {s[k] : k \in 1..Len(s)}
        atMost == [v \in vals |-> Cardinality({k \in 1..Len(s) : s[k] <= v})]
        below == [v \in vals |-> Cardinality({k \in 1..Len(s) : s[k] < v})]
    IN [k \in 1..Len(s) |-> CHOOSE v \in vals : below[v] < k /\ k <= atMost[v]]

\* values[from] + ... + values[to - 1]: what the loop of line 99 adds to
\* sum (the range is halved to keep the evaluation shallow)
RECURSIVE SumRange(_, _, _)
SumRange(s, from, to) ==
    IF from >= to THEN 0
    ELSE IF to = from + 1 THEN At(s, from)
    ELSE LET mid == (from + to) \div 2
         IN SumRange(s, from, mid) + SumRange(s, mid, to)

\* int end = values.size() * 0.8: the double product truncated. 0.8 is
\* stored as the double just above 4/5 and the product rounds to the nearest
\* double, which is the integer 4n/5 when 5 divides n, so the truncation is
\* floor(4n/5) for every size that fits an int.
TrimEnd(n) == (n * 4) \div 5

\* average(values): the vector as the call leaves it, and the value returned
average(v) ==
    IF v = <<>> THEN [values |-> v, result |-> NaN]
    ELSE LET sorted == Sort(v)
             end == TrimEnd(Size(sorted))
         IN [values |-> sorted,
             result |-> Quotient(0 + SumRange(sorted, 0, end), end - 0)]

-----------------------------------------------------------------------------
(* Idle values of the variables a specification does not use *)

CycIdle ==
    /\ cyc_pc = "idle"
    /\ cyc_length = 0
    /\ cyc_stride = 0
    /\ cyc_mem = NoMem
    /\ cyc_walk = NoWalk

AvgIdle ==
    /\ avg_pc = "idle"
    /\ values = <<>>
    /\ avg = NaN

NoTraffic ==
    [writes |-> {}, reads |-> {}, nullWrite |-> FALSE, fault |-> FALSE,
     afterFree |-> FALSE, ends |-> <<>>]

MeasIdle ==
    /\ pc = "idle"
    /\ trial = 0
    /\ i = 0
    /\ j = 0
    /\ sum = 0
    /\ memory_begin = "none"
    /\ mem = NoMem
    /\ time = 0
    /\ live = 0
    /\ steps = <<>>
    /\ calls = <<>>
    /\ touched = NoTraffic

GridIdle ==
    /\ stride_sizes = <<>>
    /\ length_sizes = <<>>
    /\ results = <<>>

NoScan == [length |-> {}, line |-> {}, lineCalled |-> FALSE]

MainIdle ==
    /\ mpc = "idle"
    /\ profile = <<>>
    /\ runs = 0
    /\ av_result = <<>>
    /\ cache_length_idx = 0
    /\ cache_line_length_idx = 0
    /\ scanned = NoScan
    /\ out = <<>>

-----------------------------------------------------------------------------
(* SpecCycle: create_cycle, then traverse *)

InitCycle ==
    /\ cyc_pc = "start"
    /\ cyc_length \in 1..MaxCycleLength
    /\ cyc_stride \in 1..MaxCycleStride
    /\ cyc_mem = NoMem
    /\ cyc_walk = NoWalk
    /\ AvgIdle /\ GridIdle /\ MeasIdle /\ MainIdle

\* create_cycle(memory_begin, cyc_length, cyc_stride) on a fresh buffer
CycCreate ==
    /\ cyc_pc = "start"
    /\ \E shuffled \in ShuffleOutcomes(cyc_length - 1) :
          cyc_mem' = create_cycle(NoMem, cyc_length, cyc_stride, shuffled)
    /\ cyc_pc' = "built"
    /\ UNCHANGED <<cyc_length, cyc_stride, cyc_walk>>
    /\ UNCHANGED <<avgVars, gridVars, measVars, mainVars>>

\* traverse(n, memory_begin, sum) for a step count n of up to two rounds
CycTraverse ==
    /\ cyc_pc = "built"
    /\ \E n \in 0..(2 * cyc_length) :
          cyc_walk' = traverse(n, cyc_mem, 0)
    /\ cyc_pc' = "walked"
    /\ UNCHANGED <<cyc_length, cyc_stride, cyc_mem>>
    /\ UNCHANGED <<avgVars, gridVars, measVars, mainVars>>

NextCycle == CycCreate \/ CycTraverse

SpecCycle == InitCycle /\ [][NextCycle]_vars

\* The logical slot of an element offset
LogicalSlot(offset) == offset \div cyc_stride

\* C1: after create_cycle, following the decoded next-pointers from slot 0
\* stays on slots 0..length-1 at multiples of the stride, is at slot 0 after
\* step k exactly when length divides k, and the first `length` steps visit
\* `length` different slots (one cycle through every slot, no sub-cycle).
C1_SingleCycle ==
    cyc_pc = "walked" =>
        LET p == cyc_walk.path
        IN /\ ~cyc_walk.fault
           /\ \A k \in 1..Len(p) :
                 /\ p[k] % cyc_stride = 0
                 /\ LogicalSlot(p[k]) \in 0..(cyc_length - 1)
                 /\ (p[k] = 0) <=> (k % cyc_length = 0)
           /\ \A k, l \in 1..Len(p) :
                 (k < l /\ l <= cyc_length) => p[k] # p[l]
           /\ Len(p) >= cyc_length =>
                 {LogicalSlot(p[k]) : k \in 1..cyc_length} = 0..(cyc_length - 1)

\* a full round (and more) was walked over a cycle of several slots at a
\* stride larger than one
C1_Witness ==
    /\ cyc_pc = "walked"
    /\ cyc_length >= 4
    /\ cyc_stride >= 2
    /\ Len(cyc_walk.path) > cyc_length
    /\ cyc_walk.path[cyc_length] = 0

-----------------------------------------------------------------------------
(* SpecAverage: average() on a vector of samples *)

RECURSIVE Vectors(_, _)
Vectors(n, S) ==
    IF n = 0 THEN {<<>>}
    ELSE Vectors(n - 1, S) \cup {Append(v, x) : v \in Vectors(n - 1, S), x \in S}

InitAverage ==
    /\ avg_pc = "start"
    /\ values \in Vectors(MaxSamples, 0..MaxSample)
    /\ avg = NaN
    /\ CycIdle /\ GridIdle /\ MeasIdle /\ MainIdle

AverageCall ==
    /\ avg_pc = "start"
    /\ values' = average(values).values
    /\ avg' = average(values).result
    /\ avg_pc' = "done"
    /\ UNCHANGED <<cycVars, gridVars, measVars, mainVars>>

NextAverage == AverageCall

SpecAverage == InitAverage /\ [][NextAverage]_vars

\* ceil(4n/5): the rank of the 80th percentile in a sorted list of n values
P80Rank(n) == (4 * n + 4) \div 5

\* C5: for a non-empty vector, average() returns a number between the
\* smallest sample and the 80th-percentile sample, and returns v when every
\* sample is v.
C5_TrimmedMeanBounds ==
    (avg_pc = "done" /\ values # <<>>) =>
        /\ ~avg.nan
        /\ values[1] * avg.den <= avg.num
        /\ avg.num <= values[P80Rank(Len(values))] * avg.den
        /\ (\A k \in 1..Len(values) : values[k] = values[1])
               => avg.num = values[1] * avg.den

-----------------------------------------------------------------------------
(* measure *)

\* const int active_positions = length / gap
ActivePositions(length, gap) == length \div gap

\* if (active_positions <= 4) continue
Skipped_lt(active_positions) == active_positions < SkipLimit

Skipped(active_positions) == active_positions <= SkipLimit

\* results[i][j].push_back(time): the lambda main passes as on_result
PushResult(r, ii, jj, t) == [r EXCEPT ![ii + 1][jj + 1] = Append(@, t)]

\* vector<vector<vector<long>>>(lengths, vector<vector<long>>(strides))
EmptyResults(lengths, strides) == [ii \in 1..lengths |-> [jj \in 1..strides |-> <<>>]]

\* free(memory_begin): the number of live buffers afterwards
LiveAfterFree_leak(n) == n

LiveAfterFree(n) == n - 1

\* An entry of `steps`: a statement of the loop body, with the number of
\* loads it performed
Did(op, n) == [op |-> op, loads |-> n]

\* Stride and length lists handed to measure()
MeasureInputs ==
    {[strides |-> <<1, 2>>, lengths |-> <<4, 5, 11>>],
     [strides |-> <<2, 3>>, lengths |-> <<10, 17>>],
     [strides |-> <<1, 2, 4>>, lengths |-> <<6, 12>>],
     [strides |-> <<3>>, lengths |-> <<15, 16, 2>>]}

\* Values high_resolution_clock can yield for the timed traversal of
\* 16 * active_positions steps: one tick per step, and up to one tick less
\* than another tick per position
MeasureClock(active_positions) ==
    {TimedRounds * active_positions,
     TimedRounds * active_positions + 1,
     (TimedRounds + 1) * active_positions - 1}

InitMeasure ==
    /\ \E in \in MeasureInputs :
          /\ stride_sizes = in.strides
          /\ length_sizes = in.lengths
          /\ results = EmptyResults(Size(in.lengths), Size(in.strides))
    /\ pc = "driver"
    /\ trial = 0
    /\ i = 0
    /\ j = 0
    /\ sum = 0
    /\ memory_begin = "none"
    /\ mem = NoMem
    /\ time = 0
    /\ live = 0
    /\ steps = <<>>
    /\ calls = <<>>
    /\ touched = NoTraffic
    /\ CycIdle /\ AvgIdle /\ MainIdle

length == At(length_sizes, i)
gap == At(stride_sizes, j)
active_positions == ActivePositions(length, gap)

\* main line 177-178: the next call of measure(); line 60
DriverCall ==
    /\ pc = "driver"
    /\ trial < MaxTrials
    /\ pc' = "loop"
    /\ sum' = 0
    /\ i' = 0
    /\ j' = 0
    /\ calls' = <<>>
    /\ steps' = <<>>
    /\ touched' = NoTraffic
    /\ UNCHANGED <<trial, memory_begin, mem, time, live>>
    /\ UNCHANGED <<cycVars, avgVars, gridVars, mainVars>>

\* line 64: the inner loop is over, line 62: ++i
NextLength ==
    /\ pc = "loop"
    /\ i < Size(length_sizes)
    /\ j >= Size(stride_sizes)
    /\ i' = i + 1
    /\ j' = 0
    /\ UNCHANGED <<pc, trial, sum, memory_begin, mem, time, live, steps, calls, touched>>
    /\ UNCHANGED <<cycVars, avgVars, gridVars, mainVars>>

\* line 62: the outer loop is over; line 84; measure() returns
Return ==
    /\ pc = "loop"
    /\ i >= Size(length_sizes)
    /\ pc' = "driver"
    /\ trial' = trial + 1
    /\ UNCHANGED <<i, j, sum, memory_begin, mem, time, live, steps, calls, touched>>
    /\ UNCHANGED <<cycVars, avgVars, gridVars, mainVars>>

\* lines 67-68: continue
Skip ==
    /\ pc = "loop"
    /\ i < Size(length_sizes)
    /\ j < Size(stride_sizes)
    /\ Skipped(active_positions)
    /\ j' = j + 1
    /\ UNCHANGED <<pc, trial, i, sum, memory_begin, mem, time, live, steps, calls, touched>>
    /\ UNCHANGED <<cycVars, avgVars, gridVars, mainVars>>

\* line 70: aligned_alloc yields a fresh buffer or a null pointer
Alloc ==
    /\ pc = "loop"
    /\ i < Size(length_sizes)
    /\ j < Size(stride_sizes)
    /\ ~Skipped(active_positions)
    /\ \E ok \in BOOLEAN :
          /\ memory_begin' = IF ok THEN "buf" ELSE "null"
          /\ live' = IF ok THEN live + 1 ELSE live
    /\ mem' = NoMem
    /\ steps' = <<Did("alloc", 0)>>
    /\ touched' = NoTraffic
    /\ pc' = "create"
    /\ UNCHANGED <<trial, i, j, sum, time, calls>>
    /\ UNCHANGED <<cycVars, avgVars, gridVars, mainVars>>

\* line 72 on a buffer
CreateCycle ==
    /\ pc = "create"
    /\ memory_begin = "buf"
    /\ \E shuffled \in ShuffleOutcomes(active_positions - 1) :
          mem' = create_cycle(mem, active_positions, gap, shuffled)
    /\ touched' = [touched EXCEPT !.writes = DOMAIN mem']
    /\ steps' = Append(steps, Did("create", 0))
    /\ pc' = "warmup"
    /\ UNCHANGED <<trial, i, j, sum, memory_begin, time, live, calls>>
    /\ UNCHANGED <<cycVars, avgVars, gridVars, mainVars>>

\* line 72 on a null pointer: there is no check between lines 70 and 72, so
\* create_cycle's first store (cur = 0) goes through the null pointer. The
\* store is undefined; the model records it and the run ends there.
CreateCycleNull ==
    /\ pc = "create"
    /\ memory_begin = "null"
    /\ touched' = [touched EXCEPT !.nullWrite = TRUE]
    /\ steps' = Append(steps, Did("create", 0))
    /\ pc' = "crashed"
    /\ UNCHANGED <<trial, i, j, sum, memory_begin, mem, time, live, calls>>
    /\ UNCHANGED <<cycVars, avgVars, gridVars, mainVars>>

\* What a traversal adds to the record of memory traffic
Traffic(t, walk, state) ==
    [t EXCEPT !.reads = @ \cup walk.reads,
              !.fault = @ \/ walk.fault,
              !.afterFree = @ \/ (state = "freed" /\ walk.reads # {}),
              !.ends = Append(@, walk.cur)]

\* line 74
WarmUp ==
    /\ pc = "warmup"
    /\ LET walk == traverse(WarmupRounds * active_positions, mem, sum)
       IN /\ sum' = walk.sum
          /\ touched' = Traffic(touched, walk, memory_begin)
          /\ steps' = Append(steps, Did("warmup", Len(walk.path)))
    /\ pc' = "timed"
    /\ UNCHANGED <<trial, i, j, memory_begin, mem, time, live, calls>>
    /\ UNCHANGED <<cycVars, avgVars, gridVars, mainVars>>

\* line 76: measure_time, lines 47-52
MeasureTime ==
    /\ pc = "timed"
    /\ LET walk == traverse(TimedRounds * active_positions, mem, sum)
       IN /\ sum' = walk.sum
          /\ touched' = Traffic(touched, walk, memory_begin)
          /\ steps' = Append(steps, Did("timed", Len(walk.path)))
    /\ \E t \in MeasureClock(active_positions) : time' = t
    /\ pc' = "on_result"
    /\ UNCHANGED <<trial, i, j, memory_begin, mem, live, calls>>
    /\ UNCHANGED <<cycVars, avgVars, gridVars, mainVars>>

\* line 78
OnResult ==
    /\ pc = "on_result"
    /\ results' = PushResult(results, i, j, time \div active_positions)
    /\ calls' = Append(calls, <<i, j>>)
    /\ steps' = Append(steps, Did("on_result", 0))
    /\ pc' = "free"
    /\ UNCHANGED <<stride_sizes, length_sizes>>
    /\ UNCHANGED <<trial, i, j, sum, memory_begin, mem, time, live, touched>>
    /\ UNCHANGED <<cycVars, avgVars, mainVars>>

\* line 80, and line 64: ++j
Free ==
    /\ pc = "free"
    /\ memory_begin' = "freed"
    /\ live' = LiveAfterFree(live)
    /\ steps' = Append(steps, Did("free", 0))
    /\ j' = j + 1
    /\ pc' = "loop"
    /\ UNCHANGED <<trial, i, sum, mem, time, calls, touched>>
    /\ UNCHANGED <<cycVars, avgVars, gridVars, mainVars>>

NextMeasure ==
    \/ DriverCall
    \/ NextLength
    \/ Return
    \/ Skip
    \/ Alloc
    \/ CreateCycle
    \/ CreateCycleNull
    \/ WarmUp
    \/ MeasureTime
    \/ OnResult
    \/ Free

SpecMeasure == InitMeasure /\ [][NextMeasure]_vars

\* The loop body is at or past line 72 for the pair (i, j)
InBody == pc \in {"create", "warmup", "timed", "on_result", "free", "crashed"}

\* The pairs of indices whose quotient length / stride exceeds 4
MeasuredPairs ==
    {c \in (0..(Len(length_sizes) - 1)) \X (0..(Len(stride_sizes) - 1)) :
        length_sizes[c[1] + 1] \div stride_sizes[c[2] + 1] > 4}

\* <<a, b>> comes before <<c, d>> when lengths are the outer loop
Before(x, y) == x[1] < y[1] \/ (x[1] = y[1] /\ x[2] < y[2])

\* C6: on_result is never called for a pair with length / stride <= 4; when a
\* call of measure() has returned, it was called exactly once for each other
\* pair, lengths outer and strides inner; and after `trial` calls a cell holds
\* `trial` samples or none.
C6_CallbackPerMeasuredPair ==
    /\ pc # "idle" => \A k \in 1..Len(calls) : calls[k] \in MeasuredPairs
    /\ \A k, l \in 1..Len(calls) : k < l => Before(calls[k], calls[l])
    /\ (pc = "driver" /\ trial >= 1) =>
          /\ {calls[k] : k \in 1..Len(calls)} = MeasuredPairs
          /\ Len(calls) = Cardinality(MeasuredPairs)
    /\ pc = "driver" =>
          \A a \in 1..Len(length_sizes), b \in 1..Len(stride_sizes) :
              Len(results[a][b]) = IF <<a - 1, b - 1>> \in MeasuredPairs THEN trial ELSE 0

\* every call of measure() has returned, and the lists hold measured and
\* skipped pairs, among them a pair whose quotient is exactly 4
C6_Witness ==
    /\ pc = "driver"
    /\ trial = MaxTrials
    /\ Cardinality(MeasuredPairs) >= 2
    /\ \E a \in 1..Len(length_sizes), b \in 1..Len(stride_sizes) :
          length_sizes[a] \div stride_sizes[b] = 4
    /\ \E a \in 1..Len(length_sizes), b \in 1..Len(stride_sizes) :
          Len(results[a][b]) = MaxTrials

BodyOrder == <<"alloc", "create", "warmup", "timed", "on_result", "free">>

\* C7: the statements of a measured iteration run in the order allocate,
\* build, warm up (32 * active_positions loads), time (16 * active_positions
\* loads), callback, free; at most one buffer is live, and exactly while the
\* body runs; no load touches a freed buffer; no buffer is live when
\* measure() has returned.
C7_SequentialOwnership ==
    /\ pc # "idle" =>
          /\ Len(steps) <= Len(BodyOrder)
          /\ \A k \in 1..Len(steps) : steps[k].op = BodyOrder[k]
    /\ live \in {0, 1}
    /\ (live = 1) <=> (memory_begin = "buf" /\ pc \in {"create", "warmup", "timed", "on_result", "free"})
    /\ ~touched.afterFree
    /\ (InBody /\ Len(steps) >= 3) =>
          steps[3].loads = 32 * (At(length_sizes, i) \div At(stride_sizes, j))
    /\ (InBody /\ Len(steps) >= 4) =>
          steps[4].loads = 16 * (At(length_sizes, i) \div At(stride_sizes, j))
    /\ pc = "on_result" => Len(steps) = 4
    /\ pc = "free" => Len(steps) = 5
    /\ pc \in {"loop", "driver"} =>
          /\ live = 0
          /\ Len(steps) \in {0, Len(BodyOrder)}

\* a second measured iteration has run to its end, after the first one freed
\* its buffer
C7_Witness ==
    /\ pc = "loop"
    /\ Len(calls) >= 2
    /\ Len(steps) = Len(BodyOrder)
    /\ memory_begin = "freed"
    /\ live = 0

\* C9 (as claimed): after a failed allocation nothing is stored or loaded
\* through the pointer and no callback follows: the body stops at line 70.
C9_AbortOnFailedAllocation ==
    memory_begin = "null" =>
        /\ ~touched.nullWrite
        /\ touched.reads = {}
        /\ Len(steps) = 1

\* The element offsets a cycle over the pair (length, gap) may use
CycleSlots(len, g) ==
    {o \in 0..(len - 1) : o % g = 0 /\ o < (len \div g) * g}

\* C10: in a measured iteration every slot create_cycle writes and every slot
\* the two traversals load is a multiple of the stride below
\* (length / stride) * stride, inside the buffer of `length` elements, no
\* load leaves the written slots, and each traversal ends at offset 0.
C10_AccessesInsideBuffer ==
    (InBody /\ memory_begin = "buf") =>
        LET slots == CycleSlots(At(length_sizes, i), At(stride_sizes, j))
        IN /\ touched.writes \subseteq slots
           /\ touched.reads \subseteq slots
           /\ DOMAIN mem = touched.writes
           /\ ~touched.fault
           /\ \A k \in 1..Len(touched.ends) : touched.ends[k] = 0
           /\ Len(steps) >= 2 => touched.writes = slots
           /\ Len(steps) >= 3 => touched.reads = slots

\* both traversals are done over a buffer whose length the stride does not
\* divide, at a stride larger than one
C10_Witness ==
    /\ pc = "free"
    /\ memory_begin = "buf"
    /\ At(stride_sizes, j) >= 2
    /\ At(length_sizes, i) % At(stride_sizes, j) # 0
    /\ Len(touched.ends) = 2
    /\ Cardinality(touched.reads) = At(length_sizes, i) \div At(stride_sizes, j)

-----------------------------------------------------------------------------
(* main *)

\* auto v = vector<int>{first}; while (v.back() <= limit) v.push_back(v.back() * 2);
RECURSIVE GrowList(_, _)
GrowList(v, limit) ==
    IF Back(v) <= limit THEN GrowList(Append(v, Back(v) * 2), limit) ELSE v

\* The machine under test, as main's clock sees it: per-access latency is 100
\* ticks, times capPct percent from length index `cap` on (and once more from
\* index cap2 on), times linePct percent from stride index `line` on (and once
\* more from index line2 on) in the rows named by `rows`; the last `spikes`
\* trials are disturbed and take three times as long.
Profile(c, c2, p, l, l2, r, sp) ==
    [cap |-> c, cap2 |-> c2, capPct |-> p, line |-> l, line2 |-> l2, linePct |-> 115,
     rows |-> r, spikes |-> sp]

\* An index of 10 (lengths) or 9 (strides) is past the grid: no such step
Profiles ==
    {Profile(c, 10, 130, l, 9, r, 0) : c \in {1, 5, 9, 10}, l \in {1, 4, 9}, r \in {"all", "past"}}
    \cup {Profile(5, 7, 130, 4, 6, r, sp) : r \in {"all", "past"}, sp \in {0, 30}}
    \cup {Profile(c, 10, 115, 4, 9, r, 30) : c \in {1, 5}, r \in {"all", "past"}}

Pct(x, pct) == (x * pct) \div 100

Latency(p, ii, jj) ==
    LET a == IF ii >= p.cap THEN Pct(100, p.capPct) ELSE 100
        b == IF ii >= p.cap2 THEN Pct(a, p.capPct) ELSE a
        inRow == p.rows = "all" \/ ii >= p.cap
        c == IF inRow /\ jj >= p.line THEN Pct(b, p.linePct) ELSE b
        d == IF inRow /\ jj >= p.line2 THEN Pct(c, p.linePct) ELSE c
    IN d

\* The value measure_time returns in trial `run` for the pair (ii, jj)
MainClock(p, ii, jj, ap, run) ==
    TimedRounds * ap * Latency(p, ii, jj) * (IF run >= Trials - p.spikes THEN 3 ELSE 1)

\* One whole call of measure() by main, all allocations succeeding: every
\* pair that is not skipped gets one sample pushed (lines 62-82, 178). The
\* cells are independent, so the order of the pushes leaves no trace.
MeasureCall(r, strides, lengths, p, run) ==
    [ii \in 1..Size(lengths) |->
        [jj \in 1..Size(strides) |->
            LET ap == ActivePositions(lengths[ii], strides[jj])
            IN IF Skipped(ap) THEN r[ii][jj]
               ELSE Append(r[ii][jj], MainClock(p, ii - 1, jj - 1, ap, run) \div ap)]]

\* av_result[ii][jj], or NaN for a read outside the grid (no such read occurs
\* in a run of main; the scans record the rows they read)
Cell(av, ii, jj) ==
    IF ii \in 0..(Size(av) - 1) /\ jj \in 0..(Size(At(av, 0)) - 1)
    THEN At(At(av, ii), jj)
    ELSE NaN

\* av_result[i][0] > av_result[i - 1][0] * 1.2
LengthJump(a, b) == Greater(a, b, 6, 5)

\* av_result[r][i] > av_result[r][i - 1] * 1.1
LineJump(a, b) == Greater(a, b, 11, 10)

\* find_cache_length, from loop index ii on; rows: the grid rows read so far
RECURSIVE LengthScan(_, _, _, _)
LengthScan(ii, lengths, av, rows) ==
    IF ii >= lengths THEN [idx |-> -1, rows |-> rows]
    ELSE IF LengthJump(Cell(av, ii, 0), Cell(av, ii - 1, 0))
         THEN [idx |-> ii - 1, rows |-> rows \cup {ii, ii - 1}]
    ELSE LengthScan(ii + 1, lengths, av, rows \cup {ii, ii - 1})

find_cache_length(lengths, av) == LengthScan(1, lengths, av, {})

\* The row find_cache_line_length reads
LineRow_same(cache_length_idx_) == cache_length_idx_

LineRow(cache_length_idx_) == cache_length_idx_ + 1

\* find_cache_line_length, from loop index ii on
RECURSIVE LineScan(_, _, _, _, _)
LineScan(ii, row, strides, av, rows) ==
    IF ii >= strides THEN [idx |-> -1, rows |-> rows]
    ELSE IF LineJump(Cell(av, row, ii), Cell(av, row, ii - 1))
         THEN [idx |-> ii, rows |-> rows \cup {row}]
    ELSE LineScan(ii + 1, row, strides, av, rows \cup {row})

find_cache_line_length(cache_length_idx_, strides, av) ==
    LineScan(1, LineRow(cache_length_idx_), strides, av, {})

\* line 189: the first argument main passes to find_cache_length
LengthScanLimit(lengths, strides) == strides

InitMain ==
    /\ mpc = "start"
    /\ profile \in Profiles
    /\ runs = 0
    /\ av_result = <<>>
    /\ cache_length_idx = 0
    /\ cache_line_length_idx = 0
    /\ scanned = NoScan
    /\ out = <<>>
    /\ CycIdle /\ AvgIdle /\ GridIdle /\ MeasIdle

Init == InitMain

\* lines 166-176
MainLists ==
    /\ mpc = "start"
    /\ stride_sizes' = GrowList(<<FirstStride>>, StrideLimit)
    /\ length_sizes' = GrowList(<<FirstLength>>, LengthLimit)
    /\ results' = EmptyResults(Size(length_sizes'), Size(stride_sizes'))
    /\ mpc' = "trials"
    /\ UNCHANGED <<profile, runs, av_result, cache_length_idx, cache_line_length_idx,
                   scanned, out>>
    /\ UNCHANGED <<cycVars, avgVars, measVars>>

\* lines 177-178: one iteration, every allocation of the call succeeding
MainMeasure ==
    /\ mpc = "trials"
    /\ runs < Trials
    /\ results' = MeasureCall(results, stride_sizes, length_sizes, profile, runs)
    /\ runs' = runs + 1
    /\ UNCHANGED <<stride_sizes, length_sizes>>
    /\ UNCHANGED <<mpc, profile, av_result, cache_length_idx, cache_line_length_idx,
                   scanned, out>>
    /\ UNCHANGED <<cycVars, avgVars, measVars>>

\* lines 177-178: one iteration in which aligned_alloc returns a null pointer
\* for some pair; create_cycle stores through it (CreateCycleNull) and the
\* process ends, its memory with it
MainMeasureCrash ==
    /\ mpc = "trials"
    /\ runs < Trials
    /\ mpc' = "crashed"
    /\ results' = <<>>
    /\ UNCHANGED <<stride_sizes, length_sizes>>
    /\ UNCHANGED <<profile, runs, av_result, cache_length_idx, cache_line_length_idx,
                   scanned, out>>
    /\ UNCHANGED <<cycVars, avgVars, measVars>>

\* lines 181-187; average() sorts each cell in place. The table print_table
\* writes is not part of `out`.
MainAverage ==
    /\ mpc = "trials"
    /\ runs >= Trials
    /\ av_result' = [ii \in 1..Size(length_sizes) |->
                        [jj \in 1..Size(stride_sizes) |-> average(results[ii][jj]).result]]
    /\ results' = [ii \in 1..Size(length_sizes) |->
                      [jj \in 1..Size(stride_sizes) |-> average(results[ii][jj]).values]]
    /\ mpc' = "scan_length"
    /\ UNCHANGED <<stride_sizes, length_sizes>>
    /\ UNCHANGED <<profile, runs, cache_length_idx, cache_line_length_idx, scanned, out>>
    /\ UNCHANGED <<cycVars, avgVars, measVars>>

\* lines 189-193
MainScanLength ==
    /\ mpc = "scan_length"
    /\ LET found == find_cache_length(
                        LengthScanLimit(Size(length_sizes), Size(stride_sizes)), av_result)
       IN /\ cache_length_idx' = found.idx
          /\ scanned' = [scanned EXCEPT !.length = found.rows]
          /\ out' = Append(out,
                      IF found.idx = -1
                      THEN [line |-> "Cache length not found", value |-> 0]
                      ELSE [line |-> "Cache length",
                            value |-> (At(length_sizes, found.idx) * ElemSize) \div 1024])
    /\ mpc' = "scan_line"
    /\ UNCHANGED <<profile, runs, av_result, cache_line_length_idx>>
    /\ UNCHANGED <<cycVars, avgVars, gridVars, measVars>>

\* lines 195-201
MainScanLine ==
    /\ mpc = "scan_line"
    /\ LET found == find_cache_line_length(cache_length_idx, Size(stride_sizes), av_result)
       IN /\ cache_line_length_idx' = found.idx
          /\ scanned' = [scanned EXCEPT !.line = found.rows, !.lineCalled = TRUE]
          /\ out' = out \o
                    << IF found.idx = -1
                       THEN [line |-> "Cache line length not found", value |-> 0]
                       ELSE [line |-> "Cache line length",
                             value |-> At(stride_sizes, found.idx) * ElemSize],
                       [line |-> "Cache associativity calculation not implemented",
                        value |-> 0] >>
    /\ mpc' = "done"
    /\ UNCHANGED <<profile, runs, av_result, cache_length_idx>>
    /\ UNCHANGED <<cycVars, avgVars, gridVars, measVars>>

Next ==
    \/ MainLists
    \/ MainMeasure
    \/ MainMeasureCrash
    \/ MainAverage
    \/ MainScanLength
    \/ MainScanLine

Spec == Init /\ [][Next]_vars

\* The smallest element of a non-empty set of integers
Least(S) == CHOOSE x \in S : \A y \in S : x <= y

\* The indices i in 1..(number of lengths - 1) at which the latency at the
\* smallest stride exceeds 1.2 times the latency one length before
LengthJumps ==
    {k \in 1..(Len(length_sizes) - 1) :
        Greater(av_result[k + 1][1], av_result[k][1], 6, 5)}

\* The indices i in 1..(number of strides - 1) at which the latency in grid
\* row r exceeds 1.1 times the latency one stride before
LineJumps(r) ==
    {k \in 1..(Len(stride_sizes) - 1) :
        Greater(av_result[r + 1][k + 1], av_result[r + 1][k], 11, 10)}

\* C2 (as claimed): the capacity scan reports length[i - 1] for the smallest
\* jump index i of the whole length list, "not found" exactly when the list
\* has no jump, and reads no row outside the length list.
C2_CapacityScanWholeList ==
    mpc = "done" =>
        /\ scanned.length \subseteq 0..(Len(length_sizes) - 1)
        /\ (LengthJumps = {}) <=> (cache_length_idx = -1)
        /\ (LengthJumps = {}) <=> (out[1].line = "Cache length not found")
        /\ LengthJumps # {} =>
              /\ cache_length_idx = Least(LengthJumps) - 1
              /\ out[1] = [line |-> "Cache length",
                           value |-> (length_sizes[Least(LengthJumps)] * 4) \div 1024]

\* C3: when the capacity scan found index c, the line-size scan reads grid
\* row c + 1 only, a row of the grid; it reports stride[i] * 4 bytes for the
\* smallest jump index i of that row, and "not found" exactly when the row
\* has no jump.
C3_LineScanRowPastCapacity ==
    (mpc = "done" /\ cache_length_idx # -1) =>
        LET row == cache_length_idx + 1
        IN /\ scanned.line = {row}
           /\ row \in 0..(Len(length_sizes) - 1)
           /\ (LineJumps(row) = {}) <=> (cache_line_length_idx = -1)
           /\ (LineJumps(row) = {}) <=> (out[2].line = "Cache line length not found")
           /\ LineJumps(row) # {} =>
                 /\ cache_line_length_idx = Least(LineJumps(row))
                 /\ out[2] = [line |-> "Cache line length",
                              value |-> stride_sizes[Least(LineJumps(row)) + 1] * 4]

\* the capacity scan found an index, and the row past it has a step that
\* exceeds 1.1 but not 1.2, after a stride without a step
C3_Witness ==
    /\ mpc = "done"
    /\ cache_length_idx >= 1
    /\ cache_line_length_idx >= 2
    /\ out[2].line = "Cache line length"
    /\ ~Greater(av_result[cache_length_idx + 2][cache_line_length_idx + 1],
                av_result[cache_length_idx + 2][cache_line_length_idx], 6, 5)

\* C4 (as claimed): when the capacity scan reports "not found",
\* find_cache_line_length is not called, reads no grid row, and no line about
\* the cache line size is reported.
C4_NoLineScanWithoutCapacity ==
    (mpc = "done" /\ cache_length_idx = -1) =>
        /\ ~scanned.lineCalled
        /\ scanned.line = {}
        /\ \A k \in 1..Len(out) : out[k].line # "Cache line length"

\* The powers of two from `first` up to and including `last`
RECURSIVE PowersOfTwo(_, _)
PowersOfTwo(first, last) ==
    IF first > last THEN <<>> ELSE <<first>> \o PowersOfTwo(2 * first, last)

\* C8 (as claimed): the stride list is 1, 2, ..., 128 (8 values), the length
\* list is 256, 512, ..., 65536 (9 values), and measure() is called 100 times.
C8_GridAsDocumented ==
    /\ mpc \in {"trials", "scan_length", "scan_line", "done"} =>
          /\ stride_sizes = PowersOfTwo(1, 128)
          /\ Len(stride_sizes) = 8
          /\ length_sizes = PowersOfTwo(256, 65536)
          /\ Len(length_sizes) = 9
    /\ mpc \in {"scan_length", "scan_line", "done"} => runs = 100

====
